---- MODULE Spec2Model ----
(***************************************************************************)
(* The Reddit share button of the blog: ShareSocialReddit({ url, text })   *)
(* builds SHARE_REDDIT + '?' + stringify({ url, title: text }) and passes  *)
(* it as href to ShareButton, with target "_blank" and                     *)
(* rel "noopener noreferrer".                                              *)
(*                                                                         *)
(* A JavaScript string is modelled as the sequence of its UTF-16 code      *)
(* units (naturals below 65536); a JavaScript value as a record            *)
(* [t, s]: t is "undefined", "null", "string" or "array", s the code units *)
(* of a string.                                                            *)
(***************************************************************************)
EXTENDS Integers, Sequences, FiniteSets, TLC

\* ---------------------------------------------------------------- bounds
\* longest url / text the page composes character by character
MaxUrlLen == 2
MaxTextLen == 1

\* ---------------------------------------------------------------- values
Undefined == [t |-> "undefined", s |-> <<>>]
Null == [t |-> "null", s |-> <<>>]
Str(s) == [t |-> "string", s |-> s]
IsString(v) == v.t = "string"

\* code units of the characters the page composes inputs from:
\*  a  !  &  =  e-acute  high surrogate  low surrogate
\* (the seeds below add : / ? # % + space and the euro sign)
Chars == {97, 33, 38, 61, 233, 55357, 56832}

\* 'https://www.reddit.com/submit'
RedditEndpoint == <<104, 116, 116, 112, 115, 58, 47, 47, 119, 119, 119, 46, 114, 101, 100, 100, 105, 116, 46, 99, 111, 109, 47, 115, 117, 98, 109, 105, 116>>
KeyUrl == <<117, 114, 108>>
KeyTitle == <<116, 105, 116, 108, 101>>
\* 'Submit to Reddit', '_blank', 'noopener noreferrer', styles.reddit
TitleSubmit == <<83, 117, 98, 109, 105, 116, 32, 116, 111, 32, 82, 101, 100, 100, 105, 116>>
TargetBlank == <<95, 98, 108, 97, 110, 107>>
RelNoopenerNoreferrer == <<110, 111, 111, 112, 101, 110, 101, 114, 32, 110, 111, 114, 101, 102, 101, 114, 114, 101, 114>>
ClassReddit == <<114, 101, 100, 100, 105, 116>>

\* ---------------------------------------------------------------- mutants
\* Each operator below is the definition that follows it further down, changed
\* the way a slip in that code would change it; the properties at the end of
\* the module are checked to fail when it takes the definition's place.

\* encodeURI in place of encodeURIComponent: ; / ? : @ & = + $ , # stay as they are
UriUnescapedOfEncodeURI(c) ==
    \/ c \in 65..90
    \/ c \in 97..122
    \/ c \in 48..57
    \/ c \in {45, 95, 46, 33, 126, 42, 39, 40, 41}
    \/ c \in {59, 47, 63, 58, 64, 38, 61, 43, 36, 44, 35}

\* ------------------------------------------------- encodeURIComponent
\* uriAlpha, DecimalDigit and uriMark ( - _ . ! ~ * ' ( ) ): left as they are
UriUnescaped(c) ==
    \/ c \in 65..90
    \/ c \in 97..122
    \/ c \in 48..57
    \/ c \in {45, 95, 46, 33, 126, 42, 39, 40, 41}

IsHighSurrogate(c) == c \in 55296..56319
IsLowSurrogate(c) == c \in 56320..57343

\* '0123456789ABCDEF'[d]
HexDigit(d) == IF d < 10 THEN 48 + d ELSE 55 + d

\* '%' and the two upper-case hex digits of an octet
PercentOctet(b) == <<37, HexDigit(b \div 16), HexDigit(b % 16)>>

\* the UTF-8 octets of a code point
Utf8(cp) ==
    IF cp < 128 THEN <<cp>>
    ELSE IF cp < 2048 THEN <<192 + (cp \div 64), 128 + (cp % 64)>>
    ELSE IF cp < 65536 THEN
        <<224 + (cp \div 4096), 128 + ((cp \div 64) % 64), 128 + (cp % 64)>>
    ELSE
        <<240 + (cp \div 262144), 128 + ((cp \div 4096) % 64),
          128 + ((cp \div 64) % 64), 128 + (cp % 64)>>

RECURSIVE PercentOctets(_)
PercentOctets(bs) ==
    IF bs = <<>> THEN <<>> ELSE PercentOctet(Head(bs)) \o PercentOctets(Tail(bs))

\* Encode(string, unescapedSet) of ECMAScript, from code unit k on:
\* [ok |-> FALSE] stands for the URIError thrown at an unpaired surrogate
RECURSIVE UriEncodeFrom(_, _)
UriEncodeFrom(s, k) ==
    IF k > Len(s) THEN [ok |-> TRUE, s |-> <<>>]
    ELSE LET c == s[k] IN
      IF UriUnescaped(c) THEN
        LET r == UriEncodeFrom(s, k + 1) IN
        IF r.ok THEN [ok |-> TRUE, s |-> <<c>> \o r.s] ELSE r
      ELSE IF IsLowSurrogate(c) THEN [ok |-> FALSE, s |-> <<>>]
      ELSE IF IsHighSurrogate(c) THEN
        IF k + 1 > Len(s) \/ ~IsLowSurrogate(s[k + 1]) THEN [ok |-> FALSE, s |-> <<>>]
        ELSE
          LET cp == (c - 55296) * 1024 + (s[k + 1] - 56320) + 65536
              r == UriEncodeFrom(s, k + 2) IN
          IF r.ok THEN [ok |-> TRUE, s |-> PercentOctets(Utf8(cp)) \o r.s] ELSE r
      ELSE
        LET r == UriEncodeFrom(s, k + 1) IN
        IF r.ok THEN [ok |-> TRUE, s |-> PercentOctets(Utf8(c)) \o r.s] ELSE r

encodeURIComponent(s) == UriEncodeFrom(s, 1)

\* ------------------------------------------------------ strict-uri-encode
\* .replace(/[!'()*]/g, x => `%${x.charCodeAt(0).toString(16).toUpperCase()}`)
RECURSIVE ReplaceStrictChars(_)
ReplaceStrictChars(s) ==
    IF s = <<>> THEN <<>>
    ELSE IF Head(s) \in {33, 39, 40, 41, 42}
         THEN PercentOctet(Head(s)) \o ReplaceStrictChars(Tail(s))
         ELSE <<Head(s)>> \o ReplaceStrictChars(Tail(s))

\* mutant: strict: false
nonStrictUriEncode(s) == encodeURIComponent(s)

strictUriEncode(s) ==
    LET r == encodeURIComponent(s) IN
    IF r.ok THEN [ok |-> TRUE, s |-> ReplaceStrictChars(r.s)] ELSE r

\* mutant: encode: false
encodeOff(s) == [ok |-> TRUE, s |-> s]

\* query-string's encode(value, options) under the defaults encode: true, strict: true
encode(s) == strictUriEncode(s)

\* ----------------------------------------------------------- keys.sort()
\* the default comparison of Array.prototype.sort: by UTF-16 code units
RECURSIVE StringLess(_, _)
StringLess(a, b) ==
    IF b = <<>> THEN FALSE
    ELSE IF a = <<>> THEN TRUE
    ELSE IF Head(a) # Head(b) THEN Head(a) < Head(b)
    ELSE StringLess(Tail(a), Tail(b))

\* mutant: the comparison of the sort reversed (descending keys)
RECURSIVE InsertKeyDescending(_, _)
InsertKeyDescending(k, sorted) ==
    IF sorted = <<>> THEN <<k>>
    ELSE IF StringLess(Head(sorted), k) THEN <<k>> \o sorted
    ELSE <<Head(sorted)>> \o InsertKeyDescending(k, Tail(sorted))

RECURSIVE InsertKey(_, _)
InsertKey(k, sorted) ==
    IF sorted = <<>> THEN <<k>>
    ELSE IF StringLess(k, Head(sorted)) THEN <<k>> \o sorted
    ELSE <<Head(sorted)>> \o InsertKey(k, Tail(sorted))

\* mutant: sort: false
KeysInInsertionOrder(keys) == keys

RECURSIVE SortKeys(_)
SortKeys(keys) ==
    IF keys = <<>> THEN <<>> ELSE InsertKey(Head(keys), SortKeys(Tail(keys)))

\* -------------------------------------------------------------- stringify
\* an object literal is the sequence of its [key, value] entries in
\* insertion order
ObjectKeys(object) == [i \in 1..Len(object) |-> object[i].key]

ObjectGet(object, key) ==
    LET i == CHOOSE j \in 1..Len(object) : object[j].key = key IN object[i].value

\* mutant: an undefined value is written out, as key + '=' + value would
\* ('title=undefined')
StringifyEntryUndefinedWritten(key, value) ==
    IF value.t = "null" THEN strictUriEncode(key)
    ELSE
      LET k == strictUriEncode(key)
          v == IF value.t = "undefined"
               THEN [ok |-> TRUE, s |-> <<117, 110, 100, 101, 102, 105, 110, 101, 100>>]
               ELSE strictUriEncode(value.s) IN
      IF k.ok /\ v.ok THEN [ok |-> TRUE, s |-> k.s \o <<61>> \o v.s]
      ELSE [ok |-> FALSE, s |-> <<>>]

\* mutant: skipEmptyString: true
StringifyEntrySkipEmptyString(key, value) ==
    IF value.t = "undefined" \/ value = Str(<<>>) THEN [ok |-> TRUE, s |-> <<>>]
    ELSE IF value.t = "null" THEN strictUriEncode(key)
    ELSE
      LET k == strictUriEncode(key)
          v == strictUriEncode(value.s) IN
      IF k.ok /\ v.ok THEN [ok |-> TRUE, s |-> k.s \o <<61>> \o v.s]
      ELSE [ok |-> FALSE, s |-> <<>>]

\* one key of keys.map(...): '' for undefined, the bare key for null,
\* encode(key) + '=' + encode(value) for a string
StringifyEntry(key, value) ==
    IF value.t = "undefined" THEN [ok |-> TRUE, s |-> <<>>]
    ELSE IF value.t = "null" THEN encode(key)
    ELSE
      LET k == encode(key)
          v == encode(value.s) IN
      IF k.ok /\ v.ok THEN [ok |-> TRUE, s |-> k.s \o <<61>> \o v.s]
      ELSE [ok |-> FALSE, s |-> <<>>]

\* .filter(x => x.length > 0).join('&')
RECURSIVE JoinNonEmpty(_)
JoinNonEmpty(parts) ==
    IF parts = <<>> THEN <<>>
    ELSE LET rest == JoinNonEmpty(Tail(parts)) IN
      IF Head(parts) = <<>> THEN rest
      ELSE IF rest = <<>> THEN Head(parts)
      ELSE Head(parts) \o <<38>> \o rest

stringify(object) ==
    LET keys == SortKeys(ObjectKeys(object))
        parts == [i \in 1..Len(keys) |-> StringifyEntry(keys[i], ObjectGet(object, keys[i]))] IN
    IF \A i \in 1..Len(keys) : parts[i].ok
    THEN [ok |-> TRUE, s |-> JoinNonEmpty([i \in 1..Len(keys) |-> parts[i].s])]
    ELSE [ok |-> FALSE, s |-> <<>>]

\* mutant: the endpoint is looked up by a target prop
shareUrlByTarget(endpoint, p) ==
    LET q == stringify(<<[key |-> <<117, 114, 108>>, value |-> p.url],
                         [key |-> <<116, 105, 116, 108, 101>>, value |-> p.text]>>)
        e == IF p.target.t = "string" THEN p.target.s ELSE endpoint IN
    IF q.ok THEN [ok |-> TRUE, s |-> e \o <<63>> \o q.s]
    ELSE [ok |-> FALSE, s |-> <<>>]

\* mutant: tags are passed on as a third parameter, 'hashtags'
shareUrlWithHashtags(endpoint, p) ==
    LET q == stringify(<<[key |-> <<117, 114, 108>>, value |-> p.url],
                         [key |-> <<116, 105, 116, 108, 101>>, value |-> p.text],
                         [key |-> <<104, 97, 115, 104, 116, 97, 103, 115>>,
                          value |-> IF p.tags.t = "array" THEN Str(p.tags.s) ELSE p.tags]>>) IN
    IF q.ok THEN [ok |-> TRUE, s |-> endpoint \o <<63>> \o q.s]
    ELSE [ok |-> FALSE, s |-> <<>>]

\* ------------------------------------------------------ ShareSocialReddit
\* const shareUrl = SHARE_REDDIT + '?' + stringify({ url, title: text });
\* only url and text are destructured from the props
shareUrl(endpoint, p) ==
    LET q == stringify(<<[key |-> KeyUrl, value |-> p.url],
                         [key |-> KeyTitle, value |-> p.text]>>) IN
    IF q.ok THEN [ok |-> TRUE, s |-> endpoint \o <<63>> \o q.s]
    ELSE [ok |-> FALSE, s |-> <<>>]

NoElement ==
    [kind |-> "none", href |-> <<>>, target |-> <<>>, rel |-> <<>>,
     title |-> <<>>, className |-> <<>>, error |-> ""]

\* the link control of ../../Button: an anchor carrying the attributes it is given
ShareButton(attrs) ==
    [kind |-> "anchor", href |-> attrs.href, target |-> attrs.target,
     rel |-> attrs.rel, title |-> attrs.title, className |-> attrs.className,
     error |-> ""]

\* mutant: rel="noopener"
ButtonAttrsNoopenerOnly(href) ==
    [title |-> <<83, 117, 98, 109, 105, 116>>, href |-> href,
     target |-> <<95, 98, 108, 97, 110, 107>>,
     rel |-> <<110, 111, 111, 112, 101, 110, 101, 114>>,
     className |-> <<114, 101, 100, 100, 105, 116>>]

\* the attributes of <ShareButton ... />
ButtonAttrs(href) ==
    [title |-> TitleSubmit, href |-> href, target |-> TargetBlank,
     rel |-> RelNoopenerNoreferrer, className |-> ClassReddit]

\* mutant: the url is required to be a non-empty string
ShareSocialRedditRequiringUrl(endpoint, p) ==
    IF p.url.t # "string" \/ p.url.s = <<>>
    THEN [kind |-> "throw", href |-> <<>>, target |-> <<>>, rel |-> <<>>,
          title |-> <<>>, className |-> <<>>, error |-> "InvalidRequest"]
    ELSE LET q == stringify(<<[key |-> <<117, 114, 108>>, value |-> p.url],
                              [key |-> <<116, 105, 116, 108, 101>>, value |-> p.text]>>) IN
      IF q.ok
      THEN [kind |-> "anchor", href |-> endpoint \o <<63>> \o q.s,
            target |-> <<95, 98, 108, 97, 110, 107>>,
            rel |-> <<110, 111, 111, 112, 101, 110, 101, 114, 32, 110, 111, 114, 101, 102, 101, 114, 114, 101, 114>>,
            title |-> <<>>, className |-> <<>>, error |-> ""]
      ELSE [kind |-> "throw", href |-> <<>>, target |-> <<>>, rel |-> <<>>,
            title |-> <<>>, className |-> <<>>, error |-> "URIError"]

\* the element the component returns, or the URIError stringify lets through
ShareSocialReddit(endpoint, p) ==
    LET u == shareUrl(endpoint, p) IN
    IF u.ok THEN ShareButton(ButtonAttrs(u.s))
    ELSE [NoElement EXCEPT !.kind = "throw", !.error = "URIError"]

\* ---------------------------------------------------------------- state
VARIABLES
    props,          \* the props the page passes: url, text and whatever else
    out,            \* what the last render of these props returned
    SHARE_REDDIT,   \* the module-level endpoint string
    earlier         \* a build an observer kept: its props and its result

vars == <<props, out, SHARE_REDDIT, earlier>>

\* extra props the component does not declare: tags ['js'], target 'myspace'
SomeTags == [t |-> "array", s |-> <<106, 115>>]
SomeTarget == Str(<<109, 121, 115, 112, 97, 99, 101>>)

BlankProps == [url |-> Undefined, text |-> Undefined, tags |-> Undefined, target |-> Undefined]

\* url 'https://example.com/post', text 'Hello World'
ExampleProps ==
    [BlankProps EXCEPT
       !.url = Str(<<104, 116, 116, 112, 115, 58, 47, 47, 101, 120, 97, 109, 112, 108, 101, 46, 99, 111, 109, 47, 112, 111, 115, 116>>),
       !.text = Str(<<72, 101, 108, 108, 111, 32, 87, 111, 114, 108, 100>>)]

\* url 'https://a.io/?q=1&r=2#x', text '50% + café € 😀'
ReservedProps ==
    [BlankProps EXCEPT
       !.url = Str(<<104, 116, 116, 112, 115, 58, 47, 47, 97, 46, 105, 111, 47, 63, 113, 61, 49, 38, 114, 61, 50, 35, 120>>),
       !.text = Str(<<53, 48, 37, 32, 43, 32, 99, 97, 102, 233, 32, 8364, 32, 55357, 56832>>)]

\* page metadata a request starts from
Seeds == {BlankProps, ExampleProps, ReservedProps}

NoBuild == [props |-> BlankProps, out |-> NoElement]

Init ==
    /\ props \in Seeds
    /\ out = NoElement
    /\ SHARE_REDDIT = RedditEndpoint
    /\ earlier = NoBuild

\* a fresh request is constructed for the next render
NewRequest ==
    /\ out.kind # "none"
    /\ props' \in Seeds
    /\ out' = NoElement
    /\ UNCHANGED <<SHARE_REDDIT, earlier>>

\* url: PropTypes.string, not required: absent, null or a string
SupplyUrl(v) ==
    /\ props.url = Undefined
    /\ props' = [props EXCEPT !.url = v]
    /\ out' = NoElement
    /\ UNCHANGED <<SHARE_REDDIT, earlier>>

AppendUrl(c) ==
    /\ IsString(props.url)
    /\ Len(props.url.s) < MaxUrlLen
    /\ props' = [props EXCEPT !.url = Str(Append(props.url.s, c))]
    /\ out' = NoElement
    /\ UNCHANGED <<SHARE_REDDIT, earlier>>

\* text: PropTypes.string, not required
SupplyText(v) ==
    /\ props.text = Undefined
    /\ props' = [props EXCEPT !.text = v]
    /\ out' = NoElement
    /\ UNCHANGED <<SHARE_REDDIT, earlier>>

AppendText(c) ==
    /\ IsString(props.text)
    /\ Len(props.text.s) < MaxTextLen
    /\ props' = [props EXCEPT !.text = Str(Append(props.text.s, c))]
    /\ out' = NoElement
    /\ UNCHANGED <<SHARE_REDDIT, earlier>>

\* props the component does not destructure
SupplyTags ==
    /\ props.tags = Undefined
    /\ props' = [props EXCEPT !.tags = SomeTags]
    /\ out' = NoElement
    /\ UNCHANGED <<SHARE_REDDIT, earlier>>

SupplyTarget ==
    /\ props.target = Undefined
    /\ props' = [props EXCEPT !.target = SomeTarget]
    /\ out' = NoElement
    /\ UNCHANGED <<SHARE_REDDIT, earlier>>

\* mutant: the link is accumulated in the module-level string
\* (SHARE_REDDIT += '?' + stringify(...))
RenderAccumulatingInEndpoint ==
    /\ out' = ShareSocialReddit(SHARE_REDDIT, props)
    /\ SHARE_REDDIT' = IF out'.kind = "anchor" THEN out'.href ELSE SHARE_REDDIT
    /\ UNCHANGED <<props, earlier>>

\* React calls ShareSocialReddit(props)
Render ==
    /\ out' = ShareSocialReddit(SHARE_REDDIT, props)
    /\ UNCHANGED <<props, SHARE_REDDIT, earlier>>

\* an observer keeps the build on screen to compare later builds with
Observe ==
    /\ out.kind # "none"
    /\ earlier' = [props |-> props, out |-> out]
    /\ UNCHANGED <<props, out, SHARE_REDDIT>>

Next ==
    \/ NewRequest
    \/ \E v \in {Null, Str(<<>>)} : SupplyUrl(v)
    \/ \E c \in Chars : AppendUrl(c)
    \/ \E v \in {Null, Str(<<>>)} : SupplyText(v)
    \/ \E c \in Chars : AppendText(c)
    \/ SupplyTags
    \/ SupplyTarget
    \/ Render

Spec == Init /\ [][Next]_vars

\* the same, with inputs composed from two characters ( a & ) and an
\* observer keeping earlier builds
HistChars == {97, 38}

NextHist ==
    \/ NewRequest
    \/ \E v \in {Null, Str(<<>>)} : SupplyUrl(v)
    \/ \E c \in HistChars : AppendUrl(c)
    \/ \E v \in {Null, Str(<<>>)} : SupplyText(v)
    \/ \E c \in HistChars : AppendText(c)
    \/ SupplyTags
    \/ Render
    \/ Observe

SpecHist == Init /\ [][NextHist]_vars

\* ------------------------------------------- reading a link back (checks)
StartsWith(s, p) == Len(s) >= Len(p) /\ SubSeq(s, 1, Len(p)) = p

Count(s, c) == Cardinality({i \in 1..Len(s) : s[i] = c})

\* position of the first c in s, 0 when there is none
IndexOf(s, c) ==
    IF \E i \in 1..Len(s) : s[i] = c
    THEN CHOOSE i \in 1..Len(s) : s[i] = c /\ \A j \in 1..(i - 1) : s[j] # c
    ELSE 0

\* s.split(c)
RECURSIVE SplitOn(_, _)
SplitOn(s, c) ==
    LET i == IndexOf(s, c) IN
    IF i = 0 THEN <<s>>
    ELSE <<SubSeq(s, 1, i - 1)>> \o SplitOn(SubSeq(s, i + 1, Len(s)), c)

\* what follows the first '?' of a link
QueryOf(href) ==
    LET i == IndexOf(href, 63) IN
    IF i = 0 THEN <<>> ELSE SubSeq(href, i + 1, Len(href))

HexVal(c) ==
    IF c \in 48..57 THEN c - 48
    ELSE IF c \in 65..70 THEN c - 55
    ELSE IF c \in 97..102 THEN c - 87
    ELSE -1

\* the octet written as %XX at position k of s, -1 when there is none
OctetAt(s, k) ==
    IF k + 2 <= Len(s) /\ s[k] = 37 /\ HexVal(s[k + 1]) >= 0 /\ HexVal(s[k + 2]) >= 0
    THEN 16 * HexVal(s[k + 1]) + HexVal(s[k + 2])
    ELSE -1

\* octets of a UTF-8 sequence by its first octet, 0 for an invalid first octet
Utf8Length(b) ==
    IF b < 128 THEN 1
    ELSE IF b \in 192..223 THEN 2
    ELSE IF b \in 224..239 THEN 3
    ELSE IF b \in 240..247 THEN 4
    ELSE 0

\* the code point of n octets written %XX%XX.. at k, -1 when malformed
CodePointAt(s, k, n) ==
    LET b(i) == OctetAt(s, k + 3 * i)
        cont(i) == b(i) \in 128..191
        cp == IF n = 1 THEN b(0)
              ELSE IF n = 2 THEN (b(0) - 192) * 64 + (b(1) - 128)
              ELSE IF n = 3 THEN (b(0) - 224) * 4096 + (b(1) - 128) * 64 + (b(2) - 128)
              ELSE (b(0) - 240) * 262144 + (b(1) - 128) * 4096
                   + (b(2) - 128) * 64 + (b(3) - 128)
        least == IF n = 1 THEN 0 ELSE IF n = 2 THEN 128 ELSE IF n = 3 THEN 2048 ELSE 65536 IN
    IF n = 0 \/ (\E i \in 1..(n - 1) : ~cont(i)) THEN -1
    ELSE IF cp < least \/ cp > 1114111 \/ cp \in 55296..57343 THEN -1
    ELSE cp

\* the UTF-16 code units of a code point
Utf16(cp) ==
    IF cp < 65536 THEN <<cp>>
    ELSE <<55296 + ((cp - 65536) \div 1024), 56320 + ((cp - 65536) % 1024)>>

\* decodeURIComponent from position k on: [ok |-> FALSE] for a malformed escape
RECURSIVE PercentDecodeFrom(_, _)
PercentDecodeFrom(s, k) ==
    IF k > Len(s) THEN [ok |-> TRUE, s |-> <<>>]
    ELSE IF s[k] # 37 THEN
      LET r == PercentDecodeFrom(s, k + 1) IN
      IF r.ok THEN [ok |-> TRUE, s |-> <<s[k]>> \o r.s] ELSE r
    ELSE
      LET b == OctetAt(s, k)
          n == IF b < 0 THEN 0 ELSE Utf8Length(b)
          cp == CodePointAt(s, k, n) IN
      IF cp < 0 THEN [ok |-> FALSE, s |-> <<>>]
      ELSE
        LET r == PercentDecodeFrom(s, k + 3 * n) IN
        IF r.ok THEN [ok |-> TRUE, s |-> Utf16(cp) \o r.s] ELSE r

PercentDecode(s) == PercentDecodeFrom(s, 1)

\* the parameters of a query string: split on '&', each piece split on '='
ParamsOf(query) ==
    IF query = <<>> THEN <<>>
    ELSE LET pieces == SplitOn(query, 38) IN
      [i \in 1..Len(pieces) |-> SplitOn(pieces[i], 61)]

ParamNames(query) ==
    LET ps == ParamsOf(query) IN [i \in 1..Len(ps) |-> ps[i][1]]

\* the decoded values of the parameters named name that are written name=value
ValuesOf(query, name) ==
    LET ps == ParamsOf(query) IN
    {PercentDecode(ps[i][2]) : i \in {j \in 1..Len(ps) : ps[j][1] = name /\ Len(ps[j]) = 2}}

HasParam(query, name) == \E i \in 1..Len(ParamsOf(query)) : ParamsOf(query)[i][1] = name

\* no surrogate of s stands without its partner
RECURSIVE WellFormedFrom(_, _)
WellFormedFrom(s, k) ==
    IF k > Len(s) THEN TRUE
    ELSE IF IsHighSurrogate(s[k])
      THEN k + 1 <= Len(s) /\ IsLowSurrogate(s[k + 1]) /\ WellFormedFrom(s, k + 2)
    ELSE IF IsLowSurrogate(s[k]) THEN FALSE
    ELSE WellFormedFrom(s, k + 1)

WellFormed(v) == IsString(v) => WellFormedFrom(v.s, 1)

Rendered == out.kind # "none"
Linked == out.kind = "anchor"

\* ------------------------------------------------------------ properties
Query == QueryOf(out.href)
Decoded(s) == [ok |-> TRUE, s |-> s]

\* 'url', 'title' and 'https://www.reddit.com/submit?' as a reader of the link writes them
ParamUrl == <<117, 114, 108>>
ParamTitle == <<116, 105, 116, 108, 101>>
LinkPrefix == <<104, 116, 116, 112, 115, 58, 47, 47, 119, 119, 119, 46, 114, 101, 100, 100, 105, 116, 46, 99, 111, 109, 47, 115, 117, 98, 109, 105, 116, 63>>

Elements(s) == {s[i] : i \in 1..Len(s)}

\* url 'https://example.com/post' with text 'Hello World'
IsExample == props.url = ExampleProps.url /\ props.text = ExampleProps.text

\* https://www.reddit.com/submit?url=https%3A%2F%2Fexample.com%2Fpost&title=Hello%20World
ExampleLinkUrlFirst == <<104, 116, 116, 112, 115, 58, 47, 47, 119, 119, 119, 46, 114, 101, 100, 100, 105, 116, 46, 99, 111, 109, 47, 115, 117, 98, 109, 105, 116, 63, 117, 114, 108, 61, 104, 116, 116, 112, 115, 37, 51, 65, 37, 50, 70, 37, 50, 70, 101, 120, 97, 109, 112, 108, 101, 46, 99, 111, 109, 37, 50, 70, 112, 111, 115, 116, 38, 116, 105, 116, 108, 101, 61, 72, 101, 108, 108, 111, 37, 50, 48, 87, 111, 114, 108, 100>>

\* https://www.reddit.com/submit?title=Hello%20World&url=https%3A%2F%2Fexample.com%2Fpost
ExampleLinkTitleFirst == <<104, 116, 116, 112, 115, 58, 47, 47, 119, 119, 119, 46, 114, 101, 100, 100, 105, 116, 46, 99, 111, 109, 47, 115, 117, 98, 109, 105, 116, 63, 116, 105, 116, 108, 101, 61, 72, 101, 108, 108, 111, 37, 50, 48, 87, 111, 114, 108, 100, 38, 117, 114, 108, 61, 104, 116, 116, 112, 115, 37, 51, 65, 37, 50, 70, 37, 50, 70, 101, 120, 97, 109, 112, 108, 101, 46, 99, 111, 109, 37, 50, 70, 112, 111, 115, 116>>

\* C1 as stated: the link for url 'https://example.com/post' and text
\* 'Hello World' is exactly ...submit?url=https%3A%2F%2Fexample.com%2Fpost&title=Hello%20World,
\* the url parameter first.
C1_ExampleLinkUrlFirst ==
    (Rendered /\ IsExample) => (Linked /\ out.href = ExampleLinkUrlFirst)

\* C1 amended: the link for that url and text is exactly
\* ...submit?title=Hello%20World&url=https%3A%2F%2Fexample.com%2Fpost: the same
\* two parameters, spaces as %20, in ascending order of name (title, then url).
C1_ExampleLinkTitleFirst ==
    (Rendered /\ IsExample) => (Linked /\ out.href = ExampleLinkTitleFirst)

C1_ExampleRendered == Linked /\ IsExample

\* C2: whenever a link is produced from a url string and a text string, the
\* query split on '&' and '=' and percent-decoded gives back one 'url'
\* parameter equal to the url and one 'title' parameter equal to the text.
C2_RoundTrip ==
    (Linked /\ IsString(props.url) /\ IsString(props.text)) =>
        /\ ValuesOf(Query, ParamUrl) = {Decoded(props.url.s)}
        /\ ValuesOf(Query, ParamTitle) = {Decoded(props.text.s)}

\* url 'https://a.io/?q=1&r=2#x' and text '50% + café € 😀' were linked
C2_ReservedCharsLinked ==
    Linked /\ props.url = ReservedProps.url /\ props.text = ReservedProps.text

\* C3: whenever a link is produced from a url string and a text string, its
\* query has exactly two '&'-separated parameters, each name=value, named
\* 'url' and 'title', and no '#' and no second '?' is in the link.
C3_NoParameterInjection ==
    (Linked /\ IsString(props.url) /\ IsString(props.text)) =>
        LET ps == ParamsOf(Query) IN
        /\ Len(ps) = 2
        /\ \A i \in 1..Len(ps) : Len(ps[i]) = 2
        /\ {ps[i][1] : i \in 1..Len(ps)} = {ParamUrl, ParamTitle}
        /\ Count(out.href, 35) = 0
        /\ Count(out.href, 63) = 1

\* a url holding '&' and a text holding '=' were linked
C3_SeparatorsInInputs ==
    /\ Linked /\ IsString(props.url) /\ IsString(props.text)
    /\ 38 \in Elements(props.url.s)
    /\ 61 \in Elements(props.text.s)

\* scheme ':' rest, with no space and no unpaired surrogate
AbsoluteUrl(v) ==
    /\ IsString(v)
    /\ WellFormed(v)
    /\ 32 \notin Elements(v.s)
    /\ LET i == IndexOf(v.s, 58) IN
       /\ i > 1
       /\ v.s[1] \in (65..90) \cup (97..122)
       /\ \A j \in 1..(i - 1) : v.s[j] \in (65..90) \cup (97..122) \cup (48..57) \cup {43, 45, 46}

Unreserved(c) == c \in (65..90) \cup (97..122) \cup (48..57) \cup {45, 46, 95, 126}

\* C6: every link produced starts with 'https://www.reddit.com/submit?', holds
\* exactly one '?', and after it only unreserved characters, '=', '&' and '%'
\* followed by two hex digits.
C6_WellFormedLink ==
    Linked =>
        /\ StartsWith(out.href, LinkPrefix)
        /\ Count(out.href, 63) = 1
        /\ \A i \in 1..Len(Query) :
              \/ Unreserved(Query[i])
              \/ Query[i] \in {61, 38}
              \/ /\ Query[i] = 37
                 /\ i + 2 <= Len(Query)
                 /\ HexVal(Query[i + 1]) >= 0
                 /\ HexVal(Query[i + 2]) >= 0

\* a url holding '!' (which encodeURIComponent leaves alone) was linked
C6_MarkCharLinked == Linked /\ IsString(props.url) /\ 33 \in Elements(props.url.s)

C8_Deterministic ==
    /\ [](  (earlier.out.kind # "none" /\ Rendered
             /\ props.url = earlier.props.url /\ props.text = earlier.props.text)
          => out = earlier.out)
    /\ [][ /\ SHARE_REDDIT' = SHARE_REDDIT
           /\ (out'.kind # "none" /\ out' # out) => props' = props ]_vars

\* a link was built again, among other props, after an earlier build of the
\* same url and text
C8_BuiltAgain ==
    /\ earlier.out.kind = "anchor" /\ Linked
    /\ props.url = earlier.props.url /\ props.text = earlier.props.text
    /\ props # earlier.props
    /\ IsString(props.url) /\ props.url.s # <<>>

\* C9: every anchor rendered has the share link as its href, target '_blank'
\* and both 'noopener' and 'noreferrer' among the tokens of rel; nothing else
\* carries a href.
C9_SafeAnchor ==
    /\ Linked =>
        /\ shareUrl(SHARE_REDDIT, props).ok
        /\ out.href = shareUrl(SHARE_REDDIT, props).s
        /\ out.target = <<95, 98, 108, 97, 110, 107>>
        /\ {<<110, 111, 111, 112, 101, 110, 101, 114>>,
            <<110, 111, 114, 101, 102, 101, 114, 114, 101, 114>>}
              \subseteq Elements(SplitOn(out.rel, 32))
    /\ ~Linked => out.href = <<>>

C9_AnchorRendered == Linked /\ IsString(props.url) /\ Len(props.url.s) = MaxUrlLen

\* C10: tags and any other extra prop change nothing: the result is the
\* result for the same url and text alone (the same link, or the same
\* error), and a link has no parameter other than 'url' and 'title'.
C10_ExtraPropsDropped ==
    Rendered =>
        /\ out = ShareSocialReddit(SHARE_REDDIT,
                    [props EXCEPT !.tags = Undefined, !.target = Undefined])
        /\ Linked => Elements(ParamNames(Query)) \subseteq {ParamUrl, ParamTitle}

C10_TagsSupplied == Linked /\ props.tags = SomeTags /\ IsString(props.url)

\* C11: the parameters of every link stand in ascending order of name, not
\* in the order of the object literal: the names read <<>>, <'title'>,
\* <'url'> or <'title', 'url'>, and with both url and text given 'title'
\* comes before 'url'.
C11_ParametersSortedByName ==
    Linked =>
        /\ ParamNames(Query) \in {<<>>, <<ParamTitle>>, <<ParamUrl>>, <<ParamTitle, ParamUrl>>}
        /\ (props.url # Undefined /\ props.text # Undefined) =>
              ParamNames(Query) = <<ParamTitle, ParamUrl>>

\* a non-empty url and a non-empty text were linked, with no other prop
C11_BothParametersLinked ==
    /\ Linked /\ IsString(props.url) /\ IsString(props.text)
    /\ props.url.s # <<>> /\ props.text.s # <<>>
    /\ props.tags = Undefined /\ props.target = Undefined

\* the parameter called name is in the query exactly once, as 'name=' with
\* the empty value
EmptyParam(query, name) ==
    LET ps == ParamsOf(query) IN
    /\ Cardinality({i \in 1..Len(ps) : ps[i][1] = name}) = 1
    /\ \A i \in 1..Len(ps) : ps[i][1] = name => ps[i] = <<name, <<>>>>

AbsentOrEmpty(v) == v \in {Undefined, Str(<<>>)}

\* C12: an undefined text (url) leaves 'title' ('url') out of the query, the
\* empty string gives 'title=' ('url='), and neither is an error: with both
\* inputs absent or empty a link starting with
\* 'https://www.reddit.com/submit?' is always rendered, and with one of them
\* absent or empty the link is rendered unless the other input holds an
\* unpaired surrogate (the only error there is, URIError).
C12_AbsentAndEmptyInputs ==
    Rendered =>
        /\ out.error \in {"", "URIError"}
        /\ (AbsentOrEmpty(props.url) /\ AbsentOrEmpty(props.text)) => Linked
        /\ AbsentOrEmpty(props.text) => (Linked <=> WellFormed(props.url))
        /\ AbsentOrEmpty(props.url) => (Linked <=> WellFormed(props.text))
        /\ Linked =>
            /\ StartsWith(out.href, LinkPrefix)
            /\ props.text = Undefined => ~HasParam(Query, ParamTitle)
            /\ props.url = Undefined => ~HasParam(Query, ParamUrl)
            /\ props.text = Str(<<>>) => EmptyParam(Query, ParamTitle)
            /\ props.url = Str(<<>>) => EmptyParam(Query, ParamUrl)

\* an absent text was linked with an empty url
C12_AbsentTextEmptyUrlLinked ==
    Linked /\ props.text = Undefined /\ props.url = Str(<<>>)

====
